---------------------------- MODULE Spec2Model ----------------------------
(***************************************************************************)
(* State-machine model of the MRWA workflow engine                         *)
(* (src/core/orchestrator/engine.py) with its validator                    *)
(* (src/core/validation/validator.py) and corrector                        *)
(* (src/core/correction/corrector.py, strategies.py).                      *)
(*                                                                         *)
(* One WorkflowEngine object is modelled.  Every execute_workflow call c   *)
(* creates the WorkflowResult run[c]; all later writes of the call go      *)
(* through self.current_workflow, i.e. to run[current].  A call advances   *)
(* one statement group at a time; the labels in AwaitPcs are the places    *)
(* where the coroutine is suspended in an await.                           *)
(***************************************************************************)
EXTENDS Integers, Sequences, FiniteSets, TLC

\* ------------------------------------------------------------------ bounds
NumCalls == 2       \* execute_workflow calls made on the engine
MaxInputs == 2      \* length of config['inputs']
MaxClock == 1       \* seconds the wall clock may advance

Calls == 1..NumCalls

\* ------------------------------------------------------- enumerations
Stages ==
    {"idle", "ingesting", "planning", "executing", "validating",
     "correcting", "completed", "failed"}
TerminalStages == {"completed", "failed"}
TaskStatuses == {"pending", "running", "completed", "failed", "corrected"}
TerminalStatuses == {"completed", "failed", "corrected"}

\* The step number execute_task / validate special-case.
DemoFailStep == 3

\* Places where a call is suspended in an await (asyncio.sleep).
AwaitPcs ==
    {"ingest_sleep", "plan_sleep", "exec_sleep", "validate_sleep",
     "correct_sleep", "corrector_sleep", "reexec_sleep", "final_sleep"}

\* ------------------------------------------------------------- inputs
\* config['name']: a string naming the task type, a value that is not a
\* string, or no 'name' key at all.
Names == {"Research Paper Synthesis", "Code Analysis", "demo"}
NameValues == Names \cup {"<non-string>", "<absent>"}

\* One element of config['inputs']: a dict, or a value without .get
InputKinds == {"dict", "nondict"}

RECURSIVE SeqsUpTo(_, _)
SeqsUpTo(S, n) ==
    IF n = 0 THEN {<<>>}
    ELSE LET shorter == SeqsUpTo(S, n - 1)
         IN  shorter \cup {Append(s, x) : s \in {t \in shorter : Len(t) = n - 1}, x \in S}

Configs == [name : NameValues, inputs : SeqsUpTo(InputKinds, MaxInputs)]

VARIABLES
    current,   \* self.current_workflow: id of the run it refers to, 0 = None
    bound,     \* TRUE: self.validator / self.corrector are set; FALSE: fallbacks
    clock,     \* datetime.now() in whole seconds
    run,       \* run[r]: the WorkflowResult created by call r
    tasks,     \* tasks[c]: the Task objects created by call c's generate_plan
    call,      \* call[c]: locals and position of the execute_workflow call c
    history,   \* history[c]: the collaborator calls call c has made, in order
    rules,     \* self.rules of a Validator used on its own, in dict order
    probe,     \* the last call made to a Validator or CorrectionStrategies on its own
    workflows, \* server.py: the run store, workflows[id] = call whose result is stored, 0 = no entry
    emitted    \* server.py: the 'workflow_update' events emitted, in order

engineVars == <<current, bound, clock, run, tasks, call, history>>

vars == <<current, bound, clock, run, tasks, call, history, rules, probe, workflows, emitted>>

\* ------------------------------------------------------------ records
\* A run carries, besides the fields of WorkflowResult, stage_logs: the length
\* its log had when its stage was last assigned.
NoRun ==
    [workflow_id |-> -1, name |-> "", stage |-> "absent", progress |-> [m |-> <<>>, e |-> 0],
     tasks |-> 0, logs |-> <<>>, artifacts |-> <<>>,
     validation_failure |-> <<>>, correction |-> <<>>, completed_at |-> FALSE,
     stage_logs |-> 0]

NewRun(id, config) ==
    [workflow_id |-> id,
     name |-> IF config.name = "<absent>" THEN "Unnamed Workflow" ELSE config.name,
     stage |-> "idle", progress |-> [m |-> <<>>, e |-> 0],
     tasks |-> 0, logs |-> <<>>, artifacts |-> <<>>,
     validation_failure |-> <<>>, correction |-> <<>>, completed_at |-> FALSE,
     stage_logs |-> 0]

NoCall ==
    [pc |-> "idle", config |-> [name |-> "demo", inputs |-> <<>>], i |-> 0,
     output |-> {}, validation |-> <<>>, correction |-> <<>>,
     exc |-> "", outcome |-> "none", signal |-> "", returned |-> 0]

LogEntry(level, message, n, cause) ==
    [level |-> level, message |-> message, n |-> n, cause |-> cause]

\* The Task list a run refers to (run.tasks is a reference to a call's list).
RunTasks(r) == IF run[r].tasks = 0 THEN <<>> ELSE tasks[run[r].tasks]

\* ------------------------------------------------- generate_plan (pure part)
\* The keywords generate_plan looks for that occur in name.lower().
NameKeywords(name) ==
    CASE name = "Research Paper Synthesis" -> {"research", "synthesis"}
      [] name = "Code Analysis" -> {"code", "analysis"}
      [] OTHER -> {}

PlanSteps(name) ==
    IF NameKeywords(name) \cap {"research", "synthesis"} # {}
    THEN <<"Parse and extract content from all input sources",
           "Identify key themes and patterns using NLP analysis",
           "Cross-reference findings across all sources",
           "Generate comprehensive synthesis report with citations",
           "Validate output completeness and citation accuracy">>
    ELSE IF NameKeywords(name) \cap {"code", "analysis"} # {}
    THEN <<"Analyze code structure and dependencies",
           "Detect code smells and anti-patterns",
           "Evaluate security vulnerabilities",
           "Generate improvement recommendations",
           "Validate analysis completeness">>
    ELSE <<"Process and normalize input data",
           "Apply analysis algorithms",
           "Generate insights and findings",
           "Create output artifacts",
           "Validate results quality">>

\* A task numbered from 0, the index enumerate() would give without start=1
NewTaskFromZero(i, description) ==
    [id |-> <<"task", i - 1>>, step_number |-> i - 1, description |-> description,
     status |-> "pending", started_at |-> FALSE, completed_at |-> FALSE,
     error |-> "", correction_applied |-> FALSE]

NewTask(i, description) ==
    [id |-> <<"task", i>>, step_number |-> i, description |-> description,
     status |-> "pending", started_at |-> FALSE, completed_at |-> FALSE,
     error |-> "", correction_applied |-> FALSE]

PlanTasks(name) ==
    [i \in 1..Len(PlanSteps(name)) |-> NewTask(i, PlanSteps(name)[i])]

\* ------------------------------------------------- execute_task (pure part)
\* The dict execute_task returns, as its set of keys.
FailureOutput == {"success", "error"}
SuccessOutput == {"task_id", "result", "data"}

ExecuteFails(task) == task.step_number = DemoFailStep

ExecuteOutput(task) == IF ExecuteFails(task) THEN FailureOutput ELSE SuccessOutput

\* ------------------------------------------------------------- Validator
\* A ValidationRule: its name, its severity and its check_function, named by
\* the method or, for a custom rule, by what the function returns.
DefaultRules ==
    <<[name |-> "citation_check", severity |-> "medium", check |-> "_check_citations"],
      [name |-> "completeness_check", severity |-> "high", check |-> "_check_completeness"],
      [name |-> "format_check", severity |-> "low", check |-> "_check_format"],
      [name |-> "quality_score", severity |-> "medium",
       check |-> "_calculate_quality_score"]>>

RequiredFields == <<"result", "data">>

\* The check functions a custom rule is given: one that passes, one that fails
\* with an issue, one that fails with an empty list of issues
CustomChecks == {"custom_pass", "custom_fail", "custom_fail_silent"}

\* rule.check_function(output): <<passed, issues>>
RuleCheck(check, output) ==
    CASE check = "_check_citations" ->
            IF "citations" \in output THEN <<TRUE, <<>>>>
            ELSE <<FALSE, <<"Missing citations">>>>
      [] check = "_check_completeness" ->
            LET missing == SelectSeq(RequiredFields, LAMBDA f : f \notin output)
            IN  IF missing # <<>>
                THEN <<FALSE, [k \in 1..Len(missing) |->
                                  IF missing[k] = "result"
                                  THEN "Missing required field: result"
                                  ELSE "Missing required field: data"]>>
                ELSE <<TRUE, <<>>>>
      [] check = "_check_format" -> <<TRUE, <<>>>>
      [] check = "custom_fail" -> <<FALSE, <<"Custom rule failed">>>>
      [] check = "custom_fail_silent" -> <<FALSE, <<>>>>
      [] OTHER -> <<TRUE, <<>>>>

\* One iteration of the loop over self.rules in Validator.validate.
RuleStep(acc, rule, output) ==
    LET res == RuleCheck(rule.check, output)
    IN  IF res[1] THEN acc
        ELSE [issues |-> acc.issues \o res[2],
              severity |->
                  IF rule.severity = "critical" THEN "critical"
                  ELSE IF rule.severity = "high" /\ acc.severity # "critical" THEN "high"
                  ELSE IF rule.severity = "medium"
                          /\ acc.severity \notin {"critical", "high"} THEN "medium"
                  ELSE acc.severity]

RECURSIVE RunRules(_, _, _)
RunRules(acc, rs, output) ==
    IF rs = <<>> THEN acc
    ELSE RunRules(RuleStep(acc, Head(rs), output), Tail(rs), output)

DemoIssue == "Missing error handling for edge case: empty citation list"

ValidationResult(passed, issues, severity, task_id) ==
    [passed |-> passed, issues |-> issues, severity |-> severity, task_id |-> task_id]

\* Validator.validate(task, output) of a Validator whose self.rules is rs
ValidateWith(rs, task, output) ==
    IF task.step_number = DemoFailStep
    THEN ValidationResult(FALSE, <<DemoIssue>>, "medium", task.id)
    ELSE LET acc == RunRules([issues |-> <<>>, severity |-> "none"], rs, output)
         IN  ValidationResult(Len(acc.issues) = 0, acc.issues, acc.severity, task.id)

\* Validator.validate(task, output) of the engine's Validator(), which has the default rules
ValidatorValidate(task, output) == ValidateWith(DefaultRules, task, output)

\* Validator.add_custom_rule: self.rules[rule.name] = rule.  A dict keeps the
\* position of a key that is assigned again and appends a new key.
AddRule(rs, rule) ==
    IF \E k \in 1..Len(rs) : rs[k].name = rule.name
    THEN [k \in 1..Len(rs) |-> IF rs[k].name = rule.name THEN rule ELSE rs[k]]
    ELSE Append(rs, rule)

\* The fallback of WorkflowEngine.validate_output (self.validator is None)
FallbackValidate(task, output) ==
    IF task.step_number = DemoFailStep
    THEN ValidationResult(FALSE, <<DemoIssue>>, "medium", task.id)
    ELSE ValidationResult(TRUE, <<>>, "none", task.id)

\* ------------------------------------------------- correction strategies
\* The words of an issue text (a string is atomic here; its words stand for
\* its characters, one space between two words)
IssueWords(text) ==
    CASE text = DemoIssue ->
            <<"Missing", "error", "handling", "for", "edge", "case", ":", "empty",
              "citation", "list">>
      [] text = "Missing citations" -> <<"Missing", "citations">>
      [] text = "Missing required field: result" ->
            <<"Missing", "required", "field", ":", "result">>
      [] text = "Missing required field: data" ->
            <<"Missing", "required", "field", ":", "data">>
      [] text = "Custom rule failed" -> <<"Custom", "rule", "failed">>
      [] text = "Edge Case in parser" -> <<"Edge", "Case", "in", "parser">>
      [] text = "request TIMEOUT" -> <<"request", "TIMEOUT">>
      [] text = "Timeout on edge case" -> <<"Timeout", "on", "edge", "case">>
      [] text = "edge of the case" -> <<"edge", "of", "the", "case">>
      [] text = "trailing edge" -> <<"trailing", "edge">>
      [] text = "case closed" -> <<"case", "closed">>
      [] OTHER -> <<text>>

\* str.lower() of one word
Lower(word) ==
    CASE word = "Missing" -> "missing"
      [] word = "Custom" -> "custom"
      [] word = "Edge" -> "edge"
      [] word = "Case" -> "case"
      [] word = "TIMEOUT" -> "timeout"
      [] word = "Timeout" -> "timeout"
      [] OTHER -> word

\* str(issues): the repr of a list of strings, as words
RECURSIVE StrOfItems(_)
StrOfItems(issues) ==
    IF Len(issues) = 1 THEN IssueWords(issues[1])
    ELSE IssueWords(Head(issues)) \o <<"', '">> \o StrOfItems(Tail(issues))

StrOfList(issues) ==
    IF issues = <<>> THEN <<"[]">> ELSE <<"['">> \o StrOfItems(issues) \o <<"']">>

\* str(validation.issues).lower()
StrLower(issues) ==
    LET text == StrOfList(issues) IN [k \in 1..Len(text) |-> Lower(text[k])]

\* phrase in text
Contains(text, phrase) ==
    \E k \in 0..(Len(text) - Len(phrase)) : SubSeq(text, k + 1, k + Len(phrase)) = phrase

\* select_strategy testing for 'timeout' before 'edge case'
SelectStrategyTimeoutFirst(validation) ==
    IF Contains(StrLower(validation.issues), <<"timeout">>)
    THEN "retry_with_modified_input"
    ELSE IF Contains(StrLower(validation.issues), <<"edge", "case">>)
    THEN "inject_defensive_code"
    ELSE "use_alternative_method"

\* CorrectionStrategies.select_strategy(task, validation)
SelectStrategy(validation) ==
    IF Contains(StrLower(validation.issues), <<"edge", "case">>)
    THEN "inject_defensive_code"
    ELSE IF Contains(StrLower(validation.issues), <<"timeout">>)
    THEN "retry_with_modified_input"
    ELSE "use_alternative_method"

CorrectionStrategy(action, strategy, task_id) ==
    [action |-> action, strategy |-> strategy, confidence |-> 95, task_id |-> task_id]

\* Corrector.correct builds this record before its sleep
CorrectorCorrection(task, validation) ==
    CorrectionStrategy("Apply <strategy> to fix validation issues",
                       SelectStrategy(validation), task.id)

\* The fallback of WorkflowEngine.apply_correction (self.corrector is None)
FallbackCorrection(task) ==
    CorrectionStrategy("Add null-check and default handling for citation lists",
                       "inject_defensive_code", task.id)

\* ------------------------------------------- float arithmetic (progress)
\* progress is a Python float, an IEEE 754 double.  A natural number is a
\* little-endian sequence of limbs below LimbBase without leading zero limbs;
\* a positive double is m * 2^e with 2^52 <= m < 2^53, zero has m = <<>>.
LimbBase == 2^15

RECURSIVE BigNorm(_)
BigNorm(a) ==
    IF a = <<>> THEN <<>>
    ELSE IF a[Len(a)] = 0 THEN BigNorm(SubSeq(a, 1, Len(a) - 1))
    ELSE a

RECURSIVE BigMulCarry(_, _, _)
BigMulCarry(a, k, carry) ==
    IF a = <<>> THEN (IF carry = 0 THEN <<>> ELSE <<carry>>)
    ELSE LET t == Head(a) * k + carry
         IN  <<t % LimbBase>> \o BigMulCarry(Tail(a), k, t \div LimbBase)

\* a * k for a small k
BigMulSmall(a, k) == BigNorm(BigMulCarry(a, k, 0))

\* a divided by a small n: quotient q (not normalised) and remainder r
RECURSIVE BigDivSmall(_, _)
BigDivSmall(a, n) ==
    IF a = <<>> THEN [q |-> <<>>, r |-> 0]
    ELSE LET hi == BigDivSmall(Tail(a), n)
             t == hi.r * LimbBase + Head(a)
         IN  [q |-> <<t \div n>> \o hi.q, r |-> t % n]

RECURSIVE BigAddCarry(_, _, _)
BigAddCarry(a, b, carry) ==
    IF a = <<>> /\ b = <<>> THEN (IF carry = 0 THEN <<>> ELSE <<carry>>)
    ELSE LET x == IF a = <<>> THEN 0 ELSE Head(a)
             y == IF b = <<>> THEN 0 ELSE Head(b)
             t == x + y + carry
         IN  <<t % LimbBase>>
                \o BigAddCarry(IF a = <<>> THEN <<>> ELSE Tail(a),
                               IF b = <<>> THEN <<>> ELSE Tail(b), t \div LimbBase)

BigAdd(a, b) == BigNorm(BigAddCarry(a, b, 0))

\* a < b for normalised a, b
RECURSIVE BigLess(_, _)
BigLess(a, b) ==
    IF Len(a) # Len(b) THEN Len(a) < Len(b)
    ELSE IF a = <<>> THEN FALSE
    ELSE IF a[Len(a)] # b[Len(b)] THEN a[Len(a)] < b[Len(b)]
    ELSE BigLess(SubSeq(a, 1, Len(a) - 1), SubSeq(b, 1, Len(b) - 1))

\* 2^52 and 2^53: a mantissa m has 53 bits, 2^52 <= m < 2^53
MantissaMin == <<0, 0, 0, 2^7>>
MantissaEnd == <<0, 0, 0, 2^8>>
\* 2^37: below it a whole limb of zeros fits under the mantissa
MantissaLow == <<0, 0, 2^7>>

FZero == [m |-> <<>>, e |-> 0]

\* Round m * 2^e (plus a non-zero fraction below the last bit when sticky) to
\* the nearest double, ties to even
RECURSIVE FRound(_, _, _, _)
FRound(m, e, guard, sticky) ==
    IF m = <<>> THEN FZero
    ELSE IF ~BigLess(m, MantissaEnd)
    THEN FRound(BigNorm(BigDivSmall(m, 2).q), e + 1, BigDivSmall(m, 2).r = 1,
                sticky \/ guard)
    ELSE IF BigLess(m, MantissaLow) /\ ~guard /\ ~sticky
    THEN FRound(<<0>> \o m, e - 15, FALSE, FALSE)
    ELSE IF BigLess(m, MantissaMin) /\ ~guard /\ ~sticky
    THEN FRound(BigMulSmall(m, 2), e - 1, FALSE, FALSE)
    ELSE IF guard /\ (sticky \/ m[1] % 2 = 1)
    THEN LET up == BigAdd(m, <<1>>)
         IN  IF BigLess(up, MantissaEnd) THEN [m |-> up, e |-> e]
             ELSE [m |-> MantissaMin, e |-> e + 1]
    ELSE [m |-> m, e |-> e]

\* float(k) for an int k >= 0
FFromInt(k) == FRound(BigNorm(<<k>>), 0, FALSE, FALSE)

\* x * k for a double x and an int k >= 0
FMulInt(x, k) == FRound(BigMulSmall(x.m, k), x.e, FALSE, FALSE)

\* x / n for a double x and an int n > 0
FDivInt(x, n) ==
    LET d == BigDivSmall(<<0>> \o x.m, n)
    IN  FRound(BigNorm(d.q), x.e - 15, FALSE, d.r # 0)

\* The mantissa of x at the exponent low <= x.e
RECURSIVE FAlign(_, _)
FAlign(x, low) ==
    IF x.e = low THEN x.m ELSE FAlign([m |-> BigMulSmall(x.m, 2), e |-> x.e - 1], low)

\* x + y
FAdd(x, y) ==
    IF x.m = <<>> THEN y
    ELSE IF y.m = <<>> THEN x
    ELSE LET low == IF x.e < y.e THEN x.e ELSE y.e
         IN  FRound(BigAdd(FAlign(x, low), FAlign(y, low)), low, FALSE, FALSE)

\* x < y for doubles >= 0
FLess(x, y) ==
    IF y.m = <<>> THEN FALSE
    ELSE IF x.m = <<>> THEN TRUE
    ELSE IF x.e # y.e THEN x.e < y.e
    ELSE BigLess(x.m, y.m)

FLeq(x, y) == x = y \/ FLess(x, y)

\* The double a decimal literal num/10 denotes
FTenths(num) == FDivInt(FFromInt(num), 10)

\* --------------------------------------------------------------- progress
\* The progress of line 496 without its 0.3 offset
TaskProgressFromZero(i, n) == FDivInt(FMulInt(FTenths(6), i + 1), n)

\* The progress of line 496 counting the tasks before the one at index i
TaskProgressByIndex(i, n) == FAdd(FTenths(3), FDivInt(FMulInt(FTenths(6), i), n))

\* 0.3 + (0.6 * (i + 1) / len(tasks)) after the task at index i
TaskProgress(i, n) == FAdd(FTenths(3), FDivInt(FMulInt(FTenths(6), i + 1), n))

\* The progress values the engine writes, computed once: the literals of
\* lines 466, 472, 500 and 505, and the value of line 496 for every index
\* and length of a plan.
IngestedProgress == FTenths(2)

PlannedProgress == FTenths(3)

CompletedProgress == FTenths(9)

FullProgress == FFromInt(1)

PlanLengths == {Len(PlanSteps(name)) : name \in Names}

TaskProgressTable ==
    UNION {{<<i, n, TaskProgress(i, n)>> : i \in 0..(n - 1)} : n \in PlanLengths}

TaskProgressAt(i, n) ==
    (CHOOSE entry \in TaskProgressTable : entry[1] = i /\ entry[2] = n)[3]

\* ------------------------------------------------------ engine helpers
\* add_log putting the new entry in front of the log
AddLogNewestFirst(rn, level, message, n, cause) ==
    IF current = 0 THEN rn
    ELSE [rn EXCEPT ![current].logs = <<LogEntry(level, message, n, cause)>> \o @]

\* WorkflowEngine.add_log: appends to self.current_workflow.logs, if there is one
AddLog(rn, level, message, n, cause) ==
    IF current = 0 THEN rn
    ELSE [rn EXCEPT ![current].logs = Append(@, LogEntry(level, message, n, cause))]

\* self.current_workflow.stage = s
SetStage(rn, s) ==
    [rn EXCEPT ![current].stage = s, ![current].stage_logs = Len(rn[current].logs)]

\* self.current_workflow.progress = p
SetProgress(rn, p) == [rn EXCEPT ![current].progress = p]

\* The task the loop of call c is at: tasks[i]
CurTask(c) == tasks[c][call[c].i + 1]

\* An exception raised inside the try block of call c
Raise(c, exc) == [call EXCEPT ![c].pc = "except", ![c].exc = exc]

Event(op, step, passed) == [op |-> op, step |-> step, passed |-> passed]

\* execute_task without the assignment of line 286: a failing task keeps its status
ExecuteStatusKeepsRunning(task) == IF ExecuteFails(task) THEN task.status ELSE "completed"

\* The status execute_task leaves the task in
ExecuteStatus(task) == IF ExecuteFails(task) THEN "failed" ELSE "completed"

\* execute_workflow going back to validation after a correction, with no attempt ceiling
AfterCorrectionRetry == "validate_stage"

\* Where execute_workflow continues after apply_correction has returned
AfterCorrection == "task_done"

\* The exception the bare `raise` of line 517 hands to the caller
Reraised(exc) == exc

\* The artifacts generate_artifacts builds (all verified=True)
ArtifactNames ==
    <<"research_synthesis_report.pdf", "key_findings.json", "execution_log.txt">>

RECURSIVE LogArtifacts(_, _)
LogArtifacts(rn, names) ==
    IF names = <<>> THEN rn
    ELSE LogArtifacts(AddLog(rn, "success", "Generated artifact", 0, Head(names)), Tail(names))

\* The inputs before the first one that is not a dict (all of them if none)
RECURSIVE DictPrefix(_)
DictPrefix(inputs) ==
    IF inputs = <<>> \/ Head(inputs) # "dict" THEN <<>>
    ELSE <<Head(inputs)>> \o DictPrefix(Tail(inputs))

RECURSIVE LogInputs(_, _)
LogInputs(rn, inputs) ==
    IF inputs = <<>> THEN rn
    ELSE LogInputs(AddLog(rn, "success", "Ingested", 0, ""), Tail(inputs))

\* ---------------------------------------------------------------- Init
\* No call has been made to the Validator or CorrectionStrategies under test
NoProbe == [op |-> "none"]

\* The ids a run can get: the values of the clock
RunIds == 0..MaxClock

Init ==
    /\ current = 0
    /\ bound \in BOOLEAN
    /\ clock = 0
    /\ run = [r \in Calls |-> NoRun]
    /\ tasks = [c \in Calls |-> <<>>]
    /\ call = [c \in Calls |-> NoCall]
    /\ history = [c \in Calls |-> <<>>]
    /\ rules = DefaultRules
    /\ probe = NoProbe
    /\ workflows = [id \in RunIds |-> 0]
    /\ emitted = <<>>

\* ------------------------------------------------------------- actions
\* datetime.now() advances by a second
Tick ==
    /\ clock < MaxClock
    /\ clock' = clock + 1
    /\ UNCHANGED <<current, bound, run, tasks, call, history, rules, probe, workflows, emitted>>

\* execute_workflow, lines 439-450: a new WorkflowResult replaces current_workflow
Start(c, config) ==
    /\ call[c].pc = "idle"
    /\ current' = c
    /\ run' = [run EXCEPT ![c] = NewRun(clock, config)]
    /\ call' = [call EXCEPT ![c].pc = "ingest_stage", ![c].config = config]
    /\ UNCHANGED <<bound, clock, tasks, history, rules, probe, workflows, emitted>>

\* line 454
IngestStage(c) ==
    /\ call[c].pc = "ingest_stage"
    /\ run' = SetStage(run, "ingesting")
    /\ call' = [call EXCEPT ![c].pc = "ingest_log"]
    /\ UNCHANGED <<current, bound, clock, tasks, history, rules, probe, workflows, emitted>>

\* lines 455-459: config['name'] raises KeyError when the key is absent
IngestLog(c) ==
    /\ call[c].pc = "ingest_log"
    /\ IF call[c].config.name = "<absent>"
       THEN /\ call' = Raise(c, "KeyError")
            /\ run' = run
       ELSE /\ run' = AddLog(AddLog(run, "info", "Starting workflow", 0, ""),
                             "info", "Ingesting input sources",
                             Len(call[c].config.inputs), "")
            /\ call' = [call EXCEPT ![c].pc = "ingest_sleep"]
    /\ UNCHANGED <<current, bound, clock, tasks, history, rules, probe, workflows, emitted>>

\* lines 461-466: inp.get raises AttributeError on an input that is no dict
IngestDone(c) ==
    /\ call[c].pc = "ingest_sleep"
    /\ LET inputs == call[c].config.inputs
           good == DictPrefix(inputs)
       IN  IF Len(good) < Len(inputs)
           THEN /\ run' = LogInputs(run, good)
                /\ call' = Raise(c, "AttributeError")
           ELSE /\ run' = SetProgress(LogInputs(run, good), IngestedProgress)
                /\ call' = [call EXCEPT ![c].pc = "plan_stage"]
    /\ UNCHANGED <<current, bound, clock, tasks, history, rules, probe, workflows, emitted>>

\* line 469, and generate_plan line 210 up to its sleep
PlanStage(c) ==
    /\ call[c].pc = "plan_stage"
    /\ run' = AddLog(SetStage(run, "planning"), "info", "Gemini 3 analyzing", 0, "")
    /\ call' = [call EXCEPT ![c].pc = "plan_sleep"]
    /\ history' = [history EXCEPT ![c] = Append(@, Event("plan", 0, TRUE))]
    /\ UNCHANGED <<current, bound, clock, tasks, rules, probe, workflows, emitted>>

\* generate_plan lines 218-262 (task_type.lower() raises AttributeError on a
\* name that is no string), then lines 471-472
PlanDone(c) ==
    /\ call[c].pc = "plan_sleep"
    /\ IF call[c].config.name = "<non-string>"
       THEN /\ call' = Raise(c, "AttributeError")
            /\ UNCHANGED <<run, tasks>>
       ELSE LET plan == PlanTasks(call[c].config.name)
                logged == AddLog(run, "success", "Generated workflow plan", Len(plan), "")
            IN  /\ tasks' = [tasks EXCEPT ![c] = plan]
                /\ run' = SetProgress([logged EXCEPT ![current].tasks = c], PlannedProgress)
                /\ call' = [call EXCEPT ![c].pc = "exec_stage"]
    /\ UNCHANGED <<current, bound, clock, history, rules, probe, workflows, emitted>>

\* The start of a for loop that leaves out the first task
ExecStageSkipFirst(c) ==
    /\ call[c].pc = "exec_stage"
    /\ run' = SetStage(run, "executing")
    /\ call' = [call EXCEPT ![c].pc = "loop", ![c].i = 1]
    /\ UNCHANGED <<current, bound, clock, tasks, history, rules, probe, workflows, emitted>>

\* line 475, and the start of the for loop
ExecStage(c) ==
    /\ call[c].pc = "exec_stage"
    /\ run' = SetStage(run, "executing")
    /\ call' = [call EXCEPT ![c].pc = "loop", ![c].i = 0]
    /\ UNCHANGED <<current, bound, clock, tasks, history, rules, probe, workflows, emitted>>

\* line 477 with a task left, and execute_task lines 275-281
ExecuteTaskStart(c) ==
    /\ call[c].pc = "loop"
    /\ call[c].i < Len(tasks[c])
    /\ tasks' = [tasks EXCEPT ![c][call[c].i + 1].status = "running",
                              ![c][call[c].i + 1].started_at = TRUE]
    /\ run' = AddLog(run, "info", "Executing step", CurTask(c).step_number, "")
    /\ call' = [call EXCEPT ![c].pc = "exec_sleep"]
    /\ history' = [history EXCEPT ![c] = Append(@, Event("execute", CurTask(c).step_number, TRUE))]
    /\ UNCHANGED <<current, bound, clock, rules, probe, workflows, emitted>>

\* execute_task lines 285-300
ExecuteTaskDone(c) ==
    /\ call[c].pc = "exec_sleep"
    /\ tasks' = [tasks EXCEPT
                   ![c][call[c].i + 1].status = ExecuteStatus(CurTask(c)),
                   ![c][call[c].i + 1].error =
                       IF ExecuteFails(CurTask(c)) THEN "Edge case not handled" ELSE @,
                   ![c][call[c].i + 1].completed_at =
                       IF ExecuteFails(CurTask(c)) THEN @ ELSE TRUE]
    /\ call' = [call EXCEPT ![c].pc = "validate_stage",
                            ![c].output = ExecuteOutput(CurTask(c))]
    /\ UNCHANGED <<current, bound, clock, run, history, rules, probe, workflows, emitted>>

\* line 482, and validate_output line 313 up to its sleep
ValidateStage(c) ==
    /\ call[c].pc = "validate_stage"
    /\ run' = AddLog(SetStage(run, "validating"), "info", "Validating step output",
                     CurTask(c).step_number, "")
    /\ call' = [call EXCEPT ![c].pc = "validate_sleep"]
    /\ UNCHANGED <<current, bound, clock, tasks, history, rules, probe, workflows, emitted>>

\* validate_output lines 317-340, and the test of line 485
ValidateDone(c) ==
    /\ call[c].pc = "validate_sleep"
    /\ LET result == IF bound THEN ValidatorValidate(CurTask(c), call[c].output)
                     ELSE FallbackValidate(CurTask(c), call[c].output)
       IN  /\ run' = IF bound THEN run
                     ELSE IF result.passed
                          THEN AddLog(run, "success", "Step validation passed",
                                      CurTask(c).step_number, "")
                          ELSE AddLog(run, "error", "Validation FAILED",
                                      CurTask(c).step_number, result.issues[1])
           /\ call' = [call EXCEPT ![c].validation = <<result>>,
                                   ![c].pc = IF result.passed THEN "task_done"
                                             ELSE "correct_stage"]
           /\ history' = [history EXCEPT ![c] =
                            Append(@, Event("validate", CurTask(c).step_number, result.passed))]
    /\ UNCHANGED <<current, bound, clock, tasks, rules, probe, workflows, emitted>>

\* lines 487-488, and apply_correction line 353 up to its sleep
CorrectStage(c) ==
    /\ call[c].pc = "correct_stage"
    /\ run' = AddLog([SetStage(run, "correcting") EXCEPT
                        ![current].validation_failure = call[c].validation],
                     "warning", "Initiating autonomous self-correction", 0, "")
    /\ call' = [call EXCEPT ![c].pc = "correct_sleep"]
    /\ history' = [history EXCEPT ![c] =
                     Append(@, Event("correct", CurTask(c).step_number, TRUE))]
    /\ UNCHANGED <<current, bound, clock, tasks, rules, probe, workflows, emitted>>

\* apply_correction lines 357-358 with Corrector.correct lines 31-44
CorrectorStart(c) ==
    /\ call[c].pc = "correct_sleep"
    /\ bound
    /\ call' = [call EXCEPT
                  ![c].correction = <<CorrectorCorrection(CurTask(c), call[c].validation[1])>>,
                  ![c].pc = "corrector_sleep"]
    /\ UNCHANGED <<current, bound, clock, run, tasks, history, rules, probe, workflows, emitted>>

\* execute_workflow without the assignment of line 492: the validation failure
\* stays in the run after the correction
CorrectorDoneKeepsFailure(c) ==
    /\ call[c].pc = "corrector_sleep"
    /\ run' = [run EXCEPT ![current].correction = call[c].correction]
    /\ call' = [call EXCEPT ![c].pc = AfterCorrection]
    /\ UNCHANGED <<current, bound, clock, tasks, history, rules, probe, workflows, emitted>>

\* Corrector.correct line 46, then execute_workflow lines 491-492
CorrectorDone(c) ==
    /\ call[c].pc = "corrector_sleep"
    /\ run' = [run EXCEPT ![current].correction = call[c].correction,
                          ![current].validation_failure = <<>>]
    /\ call' = [call EXCEPT ![c].pc = AfterCorrection]
    /\ UNCHANGED <<current, bound, clock, tasks, history, rules, probe, workflows, emitted>>

\* apply_correction lines 362-376: the fallback without a Corrector
FallbackCorrectStart(c) ==
    /\ call[c].pc = "correct_sleep"
    /\ ~bound
    /\ LET correction == FallbackCorrection(CurTask(c))
       IN  /\ run' = AddLog(AddLog(run, "warning", "Correction strategy", 0,
                                   correction.strategy),
                            "info", "Re-executing with correction", 0, "")
           /\ call' = [call EXCEPT ![c].correction = <<correction>>,
                                   ![c].pc = "reexec_sleep"]
    /\ UNCHANGED <<current, bound, clock, tasks, history, rules, probe, workflows, emitted>>

\* apply_correction lines 378-384, then execute_workflow lines 491-492
FallbackCorrectDone(c) ==
    /\ call[c].pc = "reexec_sleep"
    /\ tasks' = [tasks EXCEPT ![c][call[c].i + 1].status = "corrected",
                              ![c][call[c].i + 1].correction_applied = TRUE,
                              ![c][call[c].i + 1].completed_at = TRUE]
    /\ run' = [AddLog(run, "success", "Validation PASSED after correction", 0, "")
                 EXCEPT ![current].correction = call[c].correction,
                        ![current].validation_failure = <<>>]
    /\ call' = [call EXCEPT ![c].pc = AfterCorrection]
    /\ UNCHANGED <<current, bound, clock, history, rules, probe, workflows, emitted>>

\* lines 495-496
TaskDone(c) ==
    /\ call[c].pc = "task_done"
    /\ run' = SetProgress(SetStage(run, "executing"),
                          TaskProgressAt(call[c].i, Len(tasks[c])))
    /\ call' = [call EXCEPT ![c].pc = "loop", ![c].i = @ + 1]
    /\ UNCHANGED <<current, bound, clock, tasks, history, rules, probe, workflows, emitted>>

\* line 477 with no task left, then lines 499-502
CompleteStage(c) ==
    /\ call[c].pc = "loop"
    /\ call[c].i >= Len(tasks[c])
    /\ run' = SetProgress(SetStage(run, "completed"), CompletedProgress)
    /\ call' = [call EXCEPT ![c].pc = "final_sleep"]
    /\ UNCHANGED <<current, bound, clock, tasks, history, rules, probe, workflows, emitted>>

\* lines 503-511 with generate_artifacts, and the return of line 519
Finish(c) ==
    /\ call[c].pc = "final_sleep"
    /\ LET generated == LogArtifacts(AddLog(run, "info", "Generating verified artifacts", 0, ""),
                                     ArtifactNames)
           stored == [generated EXCEPT ![current].artifacts = ArtifactNames,
                                       ![current].progress = FullProgress,
                                       ![current].completed_at = TRUE]
       IN  run' = AddLog(stored, "success", "Workflow completed successfully",
                         Len(tasks[c]), "")
    /\ call' = [call EXCEPT ![c].pc = "done", ![c].outcome = "returned",
                            ![c].returned = current]
    /\ UNCHANGED <<current, bound, clock, tasks, history, rules, probe, workflows, emitted>>

\* line 514: the handler of `except Exception`
ExceptStage(c) ==
    /\ call[c].pc = "except"
    /\ run' = SetStage(run, "failed")
    /\ call' = [call EXCEPT ![c].pc = "except_log"]
    /\ UNCHANGED <<current, bound, clock, tasks, history, rules, probe, workflows, emitted>>

\* lines 515-517: the error is logged and the same exception is raised again
ExceptLog(c) ==
    /\ call[c].pc = "except_log"
    /\ run' = AddLog(run, "error", "Workflow failed", 0, call[c].exc)
    /\ call' = [call EXCEPT ![c].pc = "done", ![c].outcome = "raised",
                            ![c].signal = Reraised(call[c].exc)]
    /\ UNCHANGED <<current, bound, clock, tasks, history, rules, probe, workflows, emitted>>

\* The caller cancels the call while it is suspended in an await:
\* asyncio.CancelledError is raised there.  It derives from BaseException
\* (python_requires >= 3.9), so `except Exception` of line 513 lets it pass.
Cancel(c) ==
    /\ call[c].pc \in AwaitPcs
    /\ call' = [call EXCEPT ![c].pc = "done", ![c].exc = "CancelledError",
                            ![c].outcome = "raised", ![c].signal = "CancelledError"]
    /\ UNCHANGED <<current, bound, clock, run, tasks, history, rules, probe, workflows, emitted>>

\* One step of call c after its start
Step(c) ==
    \/ IngestStage(c)
    \/ IngestLog(c)
    \/ IngestDone(c)
    \/ PlanStage(c)
    \/ PlanDone(c)
    \/ ExecStage(c)
    \/ ExecuteTaskStart(c)
    \/ ExecuteTaskDone(c)
    \/ ValidateStage(c)
    \/ ValidateDone(c)
    \/ CorrectStage(c)
    \/ CorrectorStart(c)
    \/ CorrectorDone(c)
    \/ FallbackCorrectStart(c)
    \/ FallbackCorrectDone(c)
    \/ TaskDone(c)
    \/ CompleteStage(c)
    \/ Finish(c)
    \/ ExceptStage(c)
    \/ ExceptLog(c)
    \/ Cancel(c)

\* One execute_workflow call on a fresh engine
StartOnce == \E config \in Configs : Start(1, config)

Next ==
    \/ Tick
    \/ StartOnce
    \/ \E c \in Calls : Step(c)

Spec == Init /\ [][Next]_vars

\* ------------------------------------------------- overlapping calls
\* server.py keeps one module-level engine and runs each request's
\* execute_workflow in the request's own thread and event loop, and a caller
\* may gather several calls in one loop: a second call can start on the engine
\* while an earlier one is suspended.  The model switches between calls only
\* at awaits, which both uses allow: call c moves only while every other call
\* is parked at an await, has ended or has not started.  Of these schedules
\* it follows the ones that switch at the awaits of YieldPcs.
YieldPcs == {"ingest_sleep"}

Parked(c) == \A d \in Calls \ {c} : call[d].pc \in YieldPcs \cup {"idle", "done"}

\* The configs of overlapping calls: every name, no inputs (a call reads its
\* inputs between two awaits, where no other call runs)
OverlapConfigs == {config \in Configs : config.inputs = <<>>}

StartOverlap ==
    \E c \in Calls, config \in OverlapConfigs :
        /\ Parked(c)
        /\ \A d \in 1..(c - 1) : call[d].pc # "idle"
        /\ Start(c, config)

StepOverlap == \E c \in Calls : Parked(c) /\ Step(c)

NextOverlap ==
    \/ Tick
    \/ StartOverlap
    \/ StepOverlap

SpecOverlap == Init /\ [][NextOverlap]_vars

\* ------------------------------------- Validator and strategies on their own
\* The tasks, outputs, custom rules and issue lists the calls below are made with
ProbeTasks == {PlanTasks("demo")[k] : k \in 1..Len(PlanTasks("demo"))}

OutputKeys == {"citations", "result", "data"}

ProbeOutputs == SUBSET OutputKeys

CustomRules ==
    [name : {"custom_check", "citation_check"},
     severity : {"low", "critical"},
     check : CustomChecks]

ProbeTexts ==
    {"Edge Case in parser", "request TIMEOUT", "Timeout on edge case",
     "edge of the case", "trailing edge", "case closed", "Missing citations"}

ProbeIssues ==
    {<<>>} \cup {<<t>> : t \in ProbeTexts} \cup {<<t, u>> : t, u \in ProbeTexts}

\* The calls are made next to an engine that has not run yet
Unused == current = 0 /\ clock = 0

\* No such call has been made
Fresh == probe = NoProbe /\ rules = DefaultRules

\* validator.add_custom_rule(rule), lines 148-150
AddCustomRule ==
    \E rule \in CustomRules :
        /\ Unused
        /\ Len(rules) <= Len(DefaultRules)
        /\ rules' = AddRule(rules, rule)
        /\ probe' = [op |-> "add_custom_rule", rule |-> rule]
        /\ UNCHANGED <<engineVars, workflows, emitted>>

\* await validator.validate(task, output), lines 103-146
ValidateCall ==
    \E task \in ProbeTasks, output \in ProbeOutputs :
        /\ Unused
        /\ probe' = [op |-> "validate", via |-> "Validator", task |-> task,
                     output |-> output, result |-> ValidateWith(rules, task, output)]
        /\ UNCHANGED <<engineVars, rules, workflows, emitted>>

\* await engine.validate_output(task, output) on an engine without Validator,
\* lines 321-340
FallbackValidateCall ==
    \E task \in ProbeTasks, output \in ProbeOutputs :
        /\ Unused
        /\ ~bound
        /\ probe' = [op |-> "validate", via |-> "engine", task |-> task,
                     output |-> output, result |-> FallbackValidate(task, output)]
        /\ UNCHANGED <<engineVars, rules, workflows, emitted>>

\* CorrectionStrategies().select_strategy(task, validation), lines 22-30
SelectStrategyCall ==
    \E issues \in ProbeIssues :
        /\ Unused
        /\ rules = DefaultRules
        /\ probe' = [op |-> "select_strategy", issues |-> issues,
                     result |-> SelectStrategy([issues |-> issues])]
        /\ UNCHANGED <<engineVars, rules, workflows, emitted>>

\* One execute_workflow call, when none of the calls above was made
TickUnit == Fresh /\ Tick

StartUnit == Fresh /\ StartOnce

StepUnit == \E c \in Calls : Step(c)

NextUnit ==
    \/ TickUnit
    \/ StartUnit
    \/ StepUnit
    \/ AddCustomRule
    \/ ValidateCall
    \/ FallbackValidateCall
    \/ SelectStrategyCall

SpecUnit == Init /\ [][NextUnit]_vars

\* ------------------------------------------------------------ properties
\* The attempt ceiling the design gives the correction loop (spec 4.1)
MaxAttempts == 3

Done(c) == call[c].pc = "done"
Returned(c) == Done(c) /\ call[c].outcome = "returned"
Raised(c) == Done(c) /\ call[c].outcome = "raised"

\* The exceptions a collaborator or a malformed config raises inside the try block
Faults == {"KeyError", "AttributeError"}

\* Positions in history[c] of the calls of `op` for step k
EventsOf(c, op, k) ==
    {n \in 1..Len(history[c]) : history[c][n].op = op /\ history[c][n].step = k}

Corrections(c, k) == Cardinality(EventsOf(c, "correct", k))

Last(S) == CHOOSE n \in S : \A m \in S : m <= n

\* The controller of call c is through with step k (execution, validation, correction)
Settled(c, k) ==
    \/ k <= call[c].i
    \/ k = call[c].i + 1 /\ call[c].pc = "task_done"

\* C1: every execute_workflow call that finishes leaves its run in stage
\* COMPLETED (when it returns the run) or FAILED (when it ends with an error).
C1_FinishedRunIsTerminal ==
    \A c \in Calls :
        /\ Returned(c) => run[c].stage = "completed"
        /\ Raised(c) => run[c].stage = "failed"

\* C2: every task of a run that execute_workflow returns has a terminal
\* status (COMPLETED, FAILED or CORRECTED), none is PENDING or RUNNING.
C2_ReturnedTasksTerminal ==
    \A c \in Calls :
        Returned(c) =>
            LET ts == RunTasks(call[c].returned)
            IN  /\ Len(ts) >= 1
                /\ \A k \in 1..Len(ts) : ts[k].status \in TerminalStatuses

C2_Witness ==
    \E c \in Calls :
        /\ Returned(c)
        /\ \E k \in 1..Len(RunTasks(call[c].returned)) :
              /\ RunTasks(call[c].returned)[k].status = "corrected"
              /\ ExecuteFails(RunTasks(call[c].returned)[k])

\* C3: when the controller leaves a task whose validation failed, the last
\* collaborator call made for it is a validation that came after the
\* correction, and the task is CORRECTED only if that validation passed.
C3_CorrectionRevalidated ==
    \A c \in Calls : \A k \in 1..Len(tasks[c]) :
        (Settled(c, k) /\ Corrections(c, k) > 0) =>
            /\ Last(EventsOf(c, "validate", k)) > Last(EventsOf(c, "correct", k))
            /\ tasks[c][k].status = "corrected" =>
                  history[c][Last(EventsOf(c, "validate", k))].passed

\* C4: when the artifact list of a run is non-empty, the most recent
\* validation of every task of the run passed.
C4_ArtifactsOnlyAfterAllPass ==
    \A r \in Calls :
        run[r].artifacts # <<>> =>
            \A k \in 1..Len(RunTasks(r)) :
                /\ EventsOf(run[r].tasks, "validate", k) # {}
                /\ history[run[r].tasks][Last(EventsOf(run[r].tasks, "validate", k))].passed

\* The stage machine of spec 4.1
StageTransitions ==
    {<<"idle", "ingesting">>, <<"ingesting", "planning">>, <<"planning", "executing">>,
     <<"executing", "validating">>, <<"validating", "executing">>,
     <<"validating", "correcting">>, <<"correcting", "validating">>,
     <<"validating", "completed">>}
        \cup {<<s, "failed">> : s \in Stages \ TerminalStages}

\* C5: every change of a run's stage is a transition of the stage machine;
\* CORRECTING is left only to VALIDATING or FAILED and COMPLETED is entered
\* only from VALIDATING.
C5_StageMachine ==
    [][\A r \in Calls :
          (run[r].stage # "absent" /\ run'[r].stage # run[r].stage) =>
              <<run[r].stage, run'[r].stage>> \in StageTransitions]_vars

\* C6: fail-fast: a task that is still FAILED when the controller leaves it
\* ends the run FAILED with every later task PENDING, and no run is in stage
\* COMPLETED with a FAILED task.
C6_FailFast ==
    \A c \in Calls :
        /\ run[c].stage = "completed" =>
              \A k \in 1..Len(RunTasks(c)) : RunTasks(c)[k].status # "failed"
        /\ \A k \in 1..Len(tasks[c]) :
              (Done(c) /\ call[c].exc # "CancelledError" /\ Settled(c, k)
                  /\ tasks[c][k].status = "failed") =>
                  /\ run[c].stage = "failed"
                  /\ \A j \in (k + 1)..Len(tasks[c]) : tasks[c][j].status = "pending"

\* C7: in a returned run, every task that failed validation and had a
\* correction applied is CORRECTED with its correction flag set, the run is
\* COMPLETED, and exactly one correction was made for the task.
C7_CorrectedTask ==
    \A c \in Calls :
        Returned(c) =>
            \A k \in 1..Len(tasks[c]) :
                Corrections(c, k) > 0 =>
                    /\ tasks[c][k].status = "corrected"
                    /\ tasks[c][k].correction_applied
                    /\ run[c].stage = "completed"
                    /\ Corrections(c, k) = 1

\* C8: no task gets more than max_attempts (3) correction cycles in one run;
\* a task with max_attempts corrections is CORRECTED or FAILED, and a task
\* whose correction is over is never RUNNING.
C8_AttemptsBounded ==
    \A c \in Calls : \A k \in 1..Len(tasks[c]) :
        /\ Corrections(c, k) <= MaxAttempts
        /\ Corrections(c, k) = MaxAttempts => tasks[c][k].status \in {"corrected", "failed"}
        /\ (Corrections(c, k) > 0 /\ Settled(c, k)) => tasks[c][k].status # "running"

C8_Witness ==
    \E c \in Calls : \E k \in 1..Len(tasks[c]) :
        /\ Corrections(c, k) > 0
        /\ Settled(c, k)
        /\ \E n \in EventsOf(c, "validate", k) : ~history[c][n].passed

\* C9: a fault raised inside a run is captured: the run's stage becomes
\* FAILED, the last log entry is an error entry naming the fault, and the
\* caller gets a WorkflowExecutionError wrapping it.
C9_FaultCaptured ==
    \A c \in Calls :
        (Done(c) /\ call[c].exc \in Faults) =>
            /\ run[c].stage = "failed"
            /\ run[c].logs # <<>>
            /\ run[c].logs[Len(run[c].logs)].level = "error"
            /\ run[c].logs[Len(run[c].logs)].cause = call[c].exc
            /\ call[c].signal = "WorkflowExecutionError"

\* C10: a run cancelled at an await point ends in stage FAILED with a log
\* entry recording the cancellation, no task RUNNING, and every task that
\* was not started PENDING.
C10_CancelStops ==
    \A c \in Calls :
        (Done(c) /\ call[c].exc = "CancelledError") =>
            /\ run[c].stage = "failed"
            /\ \E n \in 1..Len(run[c].logs) : run[c].logs[n].cause = "CancelledError"
            /\ \A k \in 1..Len(tasks[c]) :
                  /\ tasks[c][k].status # "running"
                  /\ ~tasks[c][k].started_at => tasks[c][k].status = "pending"

\* The runs of the engine that exist and are not in a terminal stage
ActiveRuns == {r \in Calls : run[r].stage \notin TerminalStages \cup {"absent"}}

\* C11: an engine has at most one run that is not in a terminal stage at any
\* moment, also when execute_workflow is called again while an earlier call
\* is suspended at an await.
C11_OneActiveRun == Cardinality(ActiveRuns) <= 1

\* C12: with calls overlapping on one engine, every step of a call writes
\* (log entries, stage, progress, task list, artifacts) only to the run that
\* call created, and a call that returns hands back the run it created.
C12_CallWritesOwnRun ==
    [][\A c \in Calls :
          (call'[c] # call[c] /\ call[c].pc # "idle") =>
              /\ \A r \in Calls \ {c} : run'[r] = run[r]
              /\ call'[c].outcome = "returned" => call'[c].returned = c]_vars

\* C13: within one run progress never decreases, on every path (success,
\* failure, after a correction), and stays within 0.0..1.0.
C13_ProgressMonotone ==
    [][\A r \in Calls :
          /\ FLeq(run[r].progress, run'[r].progress)
          /\ FLeq(FZero, run'[r].progress)
          /\ FLeq(run'[r].progress, FFromInt(1))]_vars

\* A run that went through a correction and reached progress 1.0
C13_Witness ==
    \E c \in Calls :
        /\ Done(c)
        /\ run[c].progress = FFromInt(1)
        /\ \E k \in 1..Len(tasks[c]) : Corrections(c, k) > 0

\* C14: in every reachable state a run's progress is 1.0 exactly when its
\* stage is COMPLETED.
C14_FullIffCompleted ==
    \A r \in Calls :
        run[r].stage # "absent" =>
            (run[r].progress = FFromInt(1) <=> run[r].stage = "completed")

\* Call c is inside the task loop of lines 477-496
InLoop(c) ==
    call[c].pc \in {"loop", "exec_sleep", "validate_stage", "validate_sleep",
                    "correct_stage", "correct_sleep", "corrector_sleep",
                    "reexec_sleep", "task_done"}

\* 0.3 + 0.6*k/N in double arithmetic
ProgressAfter(k, n) == FAdd(FTenths(3), FDivInt(FMulInt(FTenths(6), k), n))

\* C15 as stated: progress is 0.3 once planning is done, 0.3 + 0.6*k/N after
\* the k-th of N tasks, which is 0.9 after the last, and more than 0.9 only
\* once the artifacts have been generated.
C15_ProgressAsStated ==
    \A c \in Calls :
        /\ call[c].pc = "exec_stage" => run[c].progress = FTenths(3)
        /\ InLoop(c) =>
              /\ run[c].progress = ProgressAfter(call[c].i, Len(tasks[c]))
              /\ call[c].i = Len(tasks[c]) => run[c].progress = FTenths(9)
        /\ FLess(FTenths(9), run[c].progress) => run[c].artifacts # <<>>

\* C15 amended: progress is 0.3 once planning is done and 0.3 + 0.6*k/N,
\* computed in double arithmetic, after the k-th of N tasks; after the last
\* task that is the double just below 0.9 and not 0.9 itself, exactly 0.9 is
\* stored when the loop is left (line 500), and progress exceeds 0.9 only
\* once the artifacts have been generated.
C15_ProgressFormula ==
    \A c \in Calls :
        /\ call[c].pc = "exec_stage" => run[c].progress = FTenths(3)
        /\ InLoop(c) =>
              /\ run[c].progress = ProgressAfter(call[c].i, Len(tasks[c]))
              /\ call[c].i = Len(tasks[c]) =>
                    /\ run[c].progress.e = FTenths(9).e
                    /\ BigAdd(run[c].progress.m, <<1>>) = FTenths(9).m
        /\ call[c].pc = "final_sleep" => run[c].progress = FTenths(9)
        /\ FLess(FTenths(9), run[c].progress) =>
              /\ run[c].artifacts # <<>>
              /\ run[c].progress = FFromInt(1)

\* The last task has been processed and the loop is about to be left
C15_Witness ==
    \E c \in Calls :
        /\ call[c].pc = "loop"
        /\ Len(tasks[c]) > 0
        /\ call[c].i = Len(tasks[c])

\* The status changes the specification allows a task
StatusChanges ==
    {<<"pending", "running">>, <<"running", "completed">>, <<"running", "failed">>,
     <<"failed", "running">>, <<"running", "corrected">>}

\* C16: a task's status changes only PENDING -> RUNNING, RUNNING -> COMPLETED,
\* RUNNING -> FAILED, FAILED -> RUNNING for a correction attempt, and to
\* CORRECTED after that re-run; COMPLETED and CORRECTED never change again and
\* no task returns to PENDING.
C16_TaskStatusMachine ==
    [][\A c \in Calls : \A k \in 1..Len(tasks[c]) :
          tasks'[c][k].status # tasks[c][k].status =>
              <<tasks[c][k].status, tasks'[c][k].status>> \in StatusChanges]_vars

TaskIdentity(ts) ==
    [k \in 1..Len(ts) |-> <<ts[k].id, ts[k].step_number, ts[k].description>>]

\* C18: once a plan exists for a config, the task list has the step numbers
\* 1..M, each once and in plan order, with M >= 1 the number of plan steps,
\* and unique ids; afterwards it is never reordered, shortened or extended.
C18_TaskListFixed ==
    [][\A c \in Calls :
          /\ tasks'[c] # <<>> =>
                LET ts == tasks'[c]
                    plan == PlanSteps(call'[c].config.name)
                IN  /\ Len(ts) = Len(plan)
                    /\ Len(ts) >= 1
                    /\ \A k \in 1..Len(ts) :
                          /\ ts[k].step_number = k
                          /\ ts[k].description = plan[k]
                    /\ \A j, k \in 1..Len(ts) : ts[j].id = ts[k].id => j = k
          /\ tasks[c] # <<>> => TaskIdentity(tasks'[c]) = TaskIdentity(tasks[c])]_vars

\* A returned run whose every task has been processed
C18_Witness ==
    \E c \in Calls :
        /\ Returned(c)
        /\ Len(tasks[c]) > 1
        /\ \A k \in 1..Len(tasks[c]) : tasks[c][k].status # "pending"

\* C19: the log of a run is append-only: the log of an earlier state is a
\* prefix of the log of every later state.
C19_LogAppendOnly ==
    [][\A r \in Calls :
          run[r].stage # "absent" =>
              /\ Len(run'[r].logs) >= Len(run[r].logs)
              /\ SubSeq(run'[r].logs, 1, Len(run[r].logs)) = run[r].logs]_vars

\* A finished run whose log holds entries of different steps
C19_Witness ==
    \E c \in Calls :
        /\ Done(c)
        /\ Len(run[c].logs) > 1
        /\ run[c].logs[1] # run[c].logs[Len(run[c].logs)]

\* C20: after every change of a run's stage at least one log entry is
\* appended before the next change of the stage, and after the last change
\* before the call finishes.
C20_LogPerStageChange ==
    [][\A c \in Calls :
          /\ (run'[c].stage # run[c].stage /\ run[c].stage \notin {"absent", "idle"}) =>
                Len(run[c].logs) > run[c].stage_logs
          /\ (call'[c].pc = "done" /\ call[c].pc # "done"
                /\ run'[c].stage # "idle") =>
                Len(run'[c].logs) > run'[c].stage_logs]_vars

\* The rules of rs whose check fails on output, in registration order
FailingRules(rs, output) == SelectSeq(rs, LAMBDA rule : ~RuleCheck(rule.check, output)[1])

\* The last call was validator.validate for a task the rules are evaluated for
\* (any step but step 3, whose fixed result is the subject of C25)
RulesEvaluated ==
    /\ probe.op = "validate"
    /\ probe.via = "Validator"
    /\ probe.task.step_number # DemoFailStep

\* C23: Validator.validate returns passed = true if and only if the check of
\* every registered rule passes on the output; one failing rule, also one
\* that reports no issues, makes passed false.
C23_PassedIffAllRulesPass ==
    RulesEvaluated => (probe.result.passed <=> FailingRules(rules, probe.output) = <<>>)

\* The order of severities
SeverityOrder == <<"none", "low", "medium", "high", "critical">>

SeverityRank(severity) == CHOOSE k \in 1..Len(SeverityOrder) : SeverityOrder[k] = severity

\* The highest severity among the rules rs, "none" for no rule
MaxSeverity(rs) ==
    IF rs = <<>> THEN "none"
    ELSE CHOOSE severity \in {rs[k].severity : k \in 1..Len(rs)} :
            \A k \in 1..Len(rs) : SeverityRank(rs[k].severity) <= SeverityRank(severity)

\* C24: the severity Validator.validate returns is the maximum, in the order
\* none < low < medium < high < critical, of the severities of the rules that
\* failed: none when no rule fails, low when only low-severity rules fail.
C24_SeverityIsMaximum ==
    RulesEvaluated => probe.result.severity = MaxSeverity(FailingRules(rules, probe.output))

\* C25: validation depends on the output alone: two validations of the same
\* output, by Validator.validate or by the engine's fallback, for tasks with
\* different step numbers return the same passed, issues and severity.
C25_ValidationIgnoresPosition ==
    [][(/\ probe.op = "validate"
        /\ probe'.op = "validate"
        /\ probe'.via = probe.via
        /\ probe'.output = probe.output
        /\ rules' = rules) =>
            /\ probe'.result.passed = probe.result.passed
            /\ probe'.result.issues = probe.result.issues
            /\ probe'.result.severity = probe.result.severity]_vars

\* Some issue holds the words of phrase, in any case, one after the other
IssuesMention(issues, phrase) ==
    \E n \in 1..Len(issues) :
        LET words == IssueWords(issues[n])
        IN  \E k \in 0..(Len(words) - Len(phrase)) :
                \A j \in 1..Len(phrase) : Lower(words[k + j]) = phrase[j]

\* The strategy the policy names for a list of issues
PolicyStrategy(issues) ==
    IF IssuesMention(issues, <<"edge", "case">>) THEN "inject_defensive_code"
    ELSE IF IssuesMention(issues, <<"timeout">>) THEN "retry_with_modified_input"
    ELSE "use_alternative_method"

\* C26: the strategy of a correction is chosen from the issues of the failed
\* validation by first match, in any case: inject_defensive_code for "edge
\* case", else retry_with_modified_input for "timeout", else
\* use_alternative_method, by select_strategy and in the correction the
\* engine records with and without a Corrector.
C26_StrategyByFirstMatch ==
    /\ probe.op = "select_strategy" => probe.result = PolicyStrategy(probe.issues)
    /\ \A c \in Calls :
          (/\ run[c].correction # <<>>
           /\ call[c].validation # <<>>
           /\ run[c].correction[1].task_id = call[c].validation[1].task_id) =>
              run[c].correction[1].strategy = PolicyStrategy(call[c].validation[1].issues)

\* select_strategy was given both phrases, "timeout" first and in capitals
C26_Witness ==
    /\ probe.op = "select_strategy"
    /\ probe.issues = <<"request TIMEOUT", "Edge Case in parser">>
    /\ probe.result = "inject_defensive_code"

\* C30: add_custom_rule(r) leaves every rule registered before in its place
\* with its check and severity and puts r after all of them, so that validate
\* evaluates the old rules as before and r last.
C30_AddRuleKeepsRules ==
    [][rules' # rules =>
          /\ Len(rules') = Len(rules) + 1
          /\ \A k \in 1..Len(rules) : rules'[k] = rules[k]
          /\ rules'[Len(rules')] = probe'.rule
          /\ \A output \in ProbeOutputs :
                RunRules([issues |-> <<>>, severity |-> "none"], rules', output).issues
                    = RunRules([issues |-> <<>>, severity |-> "none"], rules, output).issues
                        \o RuleCheck(probe'.rule.check, output)[2]]_vars

\* The step of call c changes the status of one of its tasks: a task starts
\* (RUNNING) or finishes (COMPLETED, FAILED or CORRECTED)
TaskStartsOrFinishes(c) ==
    \E k \in DOMAIN tasks[c] \cap DOMAIN tasks'[c] :
        tasks'[c][k].status # tasks[c][k].status

\* The step of call c gets a failed validation or begins a correction
FailsOrCorrects(c) ==
    /\ Len(history'[c]) > Len(history[c])
    /\ LET event == history'[c][Len(history'[c])]
       IN  \/ event.op = "validate" /\ ~event.passed
           \/ event.op = "correct"

\* C21: every task start, every task finish, every failed validation and
\* every correction attempt appends at least one entry to the log of the run,
\* with and without a Validator and Corrector bound.
C21_EventsAreLogged ==
    [][\A c \in Calls :
          (TaskStartsOrFinishes(c) \/ FailsOrCorrects(c)) =>
              Len(run'[c].logs) > Len(run[c].logs)]_vars

\* C22: once the stage of a run is COMPLETED or FAILED, no field of the run
\* and none of its tasks changes any more.
C22_TerminalRunImmutable ==
    [][\A r \in Calls :
          run[r].stage \in TerminalStages =>
              /\ run'[r] = run[r]
              /\ tasks'[r] = tasks[r]]_vars

\* ---- server.py: POST /api/workflows ----

\* create_workflow lines 50-53: after the call has returned, the run is
\* stored under its id and sent once to the connected clients.
ServerRespond(c) ==
    /\ Returned(c)
    /\ \A n \in 1..Len(emitted) : emitted[n].call # c
    /\ LET result == run[call[c].returned]
       IN  /\ workflows' = [workflows EXCEPT ![result.workflow_id] = call[c].returned]
           /\ emitted' = Append(emitted, [call |-> c, snapshot |-> result])
    /\ UNCHANGED <<current, bound, clock, run, tasks, call, history, rules, probe>>

\* create_workflow lines 44-49: a config without 'name' is answered with 400
\* and never reaches the engine.
StartServed ==
    \E config \in Configs :
        /\ config.name # "<absent>"
        /\ Start(1, config)

NextServed ==
    \/ Tick
    \/ StartServed
    \/ \E c \in Calls : Step(c)
    \/ \E c \in Calls : ServerRespond(c)

SpecServed == Init /\ [][NextServed]_vars

\* The stage call c's run is in has been sent to the observers
StageNotified(c) ==
    \E n \in 1..Len(emitted) :
        /\ emitted[n].call = c
        /\ emitted[n].snapshot.stage = run[c].stage

\* C27: every change of stage of a run is followed by a notification that
\* carries the run in that stage, before the stage changes again.
C27_NotifiedPerStage ==
    [][\A c \in Calls :
          (run'[c].stage # run[c].stage /\ run[c].stage \notin {"absent", "idle"}) =>
              StageNotified(c)]_vars

\* C28: two distinct execute_workflow calls, also when started within the
\* same clock second, get different workflow ids.
C28_RunIdsUnique ==
    \A c, d \in Calls :
        (c # d /\ run[c].stage # "absent" /\ run[d].stage # "absent") =>
            run[c].workflow_id # run[d].workflow_id

\* The event loop resumes every call that is able to continue: a sleep ends
\* and a collaborator returns or raises.
SpecFair == Spec /\ WF_vars(\E c \in Calls : Step(c))

\* C29: every run that was started reaches the stage COMPLETED or FAILED.
C29_RunTerminates ==
    \A c \in Calls :
        (run[c].stage # "absent") ~> (run[c].stage \in TerminalStages)

\* Call c is inside apply_correction
Correcting(c) == call[c].pc \in {"correct_sleep", "corrector_sleep", "reexec_sleep"}

\* Some task of call c failed its validation
FailedValidation(c) ==
    \E n \in 1..Len(history[c]) : history[c][n].op = "validate" /\ ~history[c][n].passed

\* The run of call c holds a validation failure only in stage CORRECTING, or
\* in stage FAILED when the fault was raised inside the correction
FailureOnlyWhileCorrecting(c) ==
    run[c].validation_failure # <<>> =>
        \/ run[c].stage = "correcting"
        \/ /\ run[c].stage = "failed"
           /\ history[c] # <<>>
           /\ history[c][Len(history[c])].op = "correct"

\* C31: validation_failure is non-empty only in stage CORRECTING (or in FAILED
\* after a fault inside the correction); it is cleared in the step in which
\* apply_correction returns; a returned run has it empty; and the correction
\* field is set only after a failed validation, and in every returned run in
\* which a task failed validation.
C31_FailureOnlyWhileCorrecting ==
    /\ [](\A c \in Calls :
            /\ FailureOnlyWhileCorrecting(c)
            /\ Returned(c) => run[call[c].returned].validation_failure = <<>>
            /\ run[c].correction # <<>> => FailedValidation(c)
            /\ Returned(c) => (run[call[c].returned].correction # <<>> <=> FailedValidation(c)))
    /\ [][\A c \in Calls :
            (Correcting(c) /\ ~Correcting(c)' /\ call'[c].pc # "done") =>
                run'[c].validation_failure = <<>>]_vars

\* A call has returned a run in which a validation failed and was corrected
C31_Witness ==
    \E c \in Calls :
        /\ Returned(c)
        /\ FailedValidation(c)
        /\ run[call[c].returned].correction # <<>>
        /\ run[call[c].returned].validation_failure = <<>>

=============================================================================
